---- MODULE Spec2Model ----
(***************************************************************************)
(* Model of the query cache and fetch coordination of CoinMarketPage       *)
(* (src/src/App.tsx): the inputs (currency, marketCap, currentPage,        *)
(* pageSize), the useQuery call of useGetMarketCoinsQuery with its         *)
(* initialData / onError / onSuccess options, the QueryClient built in App *)
(* and the remote call asyncGetCoins.                                      *)
(*                                                                         *)
(* useQuery, useQueryClient and QueryClient come from the react-query      *)
(* package (v3 API: keepPreviousData, onSuccess/onError observer options). *)
(* Their behaviour under the options App.tsx passes is modelled here as    *)
(* the library executes it: one Query per query hash, one QueryObserver    *)
(* for the single useQuery call, the Retryer of a fetch and the garbage    *)
(* collection of queries without observers.  The browser is assumed to     *)
(* stay online and focused (a retry is then never paused and no refetch on *)
(* reconnect happens).                                                     *)
(***************************************************************************)
EXTENDS Integers, Sequences, FiniteSets, TLC

\* ---- bounds of the model ----
\* pages 1..MaxPage of the pagination
MaxPage == 2
\* distinct answers the remote gives for the same parameters
MaxVer == 1
\* input changes after the first render
MaxRuns == 2
\* requests of asyncGetCoins that fail
MaxFails == 4
\* queries removed by garbage collection
MaxGc == 1
\* fetches unsettled at the same time
MaxInFlight == 2

\* ---- values of the program ----
Currencies == {"usd", "eur"}
SortOrders == {"market_cap_desc", "market_cap_asc"}
\* two of the pageSizeOptions 10, 20, 50 of the pagination
PageSizeOptions == {10, 20}
Pages == 1..MaxPage
Versions == 1..MaxVer

\* react-query's default for the staleTime option, which App leaves unset
DefaultStaleTime == 0
\* react-query's default for the retry option, which App leaves unset
DefaultRetry == 3
\* variant of keepPreviousData: the option left at the library's default
keepPreviousDataOff == FALSE

\* the keepPreviousData default option App sets on the QueryClient
keepPreviousData == TRUE

VARIABLES
  mounted,          \* CoinMarketPage has rendered and subscribed
  currency,         \* watch("currency")
  marketCap,        \* watch("marketCap")
  currentPage,      \* useState currentPage
  pageSize,         \* useState pageSize
  queries,          \* QueryCache: queries of useQuery keys (with pageSize)
  store,            \* QueryCache: data of the keys without pageSize
  pending,          \* per useQuery key: requests of asyncGetCoins outstanding
  prevQueryResult,  \* QueryObserver.previousQueryResult
  result,           \* QueryObserver.currentResult: what useQuery returns
  runs,             \* number of input changes so far
  fails,            \* number of requests that failed so far
  gcs,              \* number of queries removed by garbage collection so far
  last              \* the step taken last

vars == << mounted, currency, marketCap, currentPage, pageSize, queries,
           store, pending, prevQueryResult, result, runs, fails, gcs, last >>

\* ---- keys ----
\* variant of displayKey: the page is left out of the key
displayKeyNoPage(c, o, p) == << "GET_MARKET_COINS_QUERIES", c, o >>

\* [GET_MARKET_COINS_QUERIES, currency, marketCap, currentPage]
displayKey(c, o, p) == << "GET_MARKET_COINS_QUERIES", c, o, p >>

\* [GET_MARKET_COINS_QUERIES, currency, marketCap, currentPage, pageSize]
fetchKey(c, o, p, s) == << "GET_MARKET_COINS_QUERIES", c, o, p, s >>

DisplayKeys == { displayKey(c, o, p) : c \in Currencies, o \in SortOrders, p \in Pages }
FetchKeys == { fetchKey(c, o, p, s) : c \in Currencies, o \in SortOrders,
                                       p \in Pages, s \in PageSizeOptions }

\* the key without pageSize that belongs to a useQuery key
displayKeyOf(k) == displayKey(k[2], k[3], k[4])

\* the useQuery key of the current render
activeKey == fetchKey(currency, marketCap, currentPage, pageSize)

\* ---- the remote call ----
\* What GET /coins/markets answers for (vs_currency, order, page, per_page):
\* a sequence of entries; ver distinguishes answers given at different times.
asyncGetCoins(params, page, perPage, ver) ==
  << [vs_currency |-> params.vs_currency, order |-> params.order,
      page |-> page, per_page |-> perPage, ver |-> ver] >>

\* the request the query function of key k makes
queryFn(k, ver) == asyncGetCoins([vs_currency |-> k[2], order |-> k[3]], k[4], k[5], ver)

EmptyData == << >>

\* ---- react-query: Query ----
\* A Retryer: phase "request" while a call of the query function is
\* outstanding, "sleep" during a retry delay, "resolved" once it has settled;
\* calls counts the calls of the query function it has made.
NoRetryer == [phase |-> "none", failureCount |-> 0, calls |-> 0, cancelRetry |-> FALSE]

\* a Retryer that has settled is never read again: its counters are dropped
SettledRetryer == [phase |-> "resolved", failureCount |-> 0, calls |-> 0, cancelRetry |-> FALSE]

\* new Retryer(...) followed by its first run(): one call of the query function
NewRetryer == [phase |-> "request", failureCount |-> 0, calls |-> 1, cancelRetry |-> FALSE]

\* variant of initialData: the cache is not consulted
initialDataEmpty(c, o, p) == EmptyData

\* initialData: marketCoinsQueryData || []
initialData(c, o, p) ==
  IF displayKey(c, o, p) \in DOMAIN store THEN store[displayKey(c, o, p)] ELSE EmptyData

\* variant of getDefaultState: the query starts without data, as when no
\* initialData is given
getDefaultStateNoData(initData) ==
  [data |-> initData, dataUpdateCount |-> 0, dataUpdatedAt |-> 0,
   status |-> "idle", isFetching |-> FALSE, retryer |-> NoRetryer]

\* state of a Query built with the initialData option: the data counts as
\* fetched (dataUpdatedAt is set, status is success) but dataUpdateCount is 0
getDefaultState(initData) ==
  [data |-> initData, dataUpdateCount |-> 0, dataUpdatedAt |-> 1,
   status |-> "success", isFetching |-> FALSE, retryer |-> NoRetryer]

\* QueryCache.build: the query of the key, created when the cache has none
build(qs, k, initData) ==
  IF k \in DOMAIN qs THEN qs ELSE qs @@ (k :> getDefaultState(initData))

\* variant of alreadyFetching: every run starts a fetch of its own
alreadyFetchingNever(q) == FALSE

\* Query.fetch: a query that is fetching returns its promise, no new call
alreadyFetching(q) == q.isFetching

\* variant of isStale: data once received stays fresh (staleTime: Infinity)
isStaleNever(q) == q.dataUpdatedAt = 0

\* Query.isStaleByTime(staleTime): without data, or when the time since
\* dataUpdatedAt is at least staleTime, which with staleTime 0 is at any time
isStale(q) == q.dataUpdatedAt = 0 \/ DefaultStaleTime = 0

\* variant of startFetch: the Retryer is started, the fetching flag is not set
startFetchUnflagged(q) == [q EXCEPT !.retryer = NewRetryer]

\* reducer, action 'fetch', and the Retryer started by Query.fetch
startFetch(q) ==
  [q EXCEPT !.isFetching = TRUE,
            !.status = IF q.dataUpdatedAt = 0 THEN "loading" ELSE q.status,
            !.retryer = NewRetryer]

\* reducer, action 'success' (Query.setData), and the Retryer resolved;
\* dataUpdateCount is only ever compared with 0 and is kept as 0 or 1
successState(q, data) ==
  [q EXCEPT !.data = data, !.dataUpdateCount = 1,
            !.dataUpdatedAt = 1, !.isFetching = FALSE, !.status = "success",
            !.retryer = SettledRetryer]

\* variant of errorState: the error is recorded but the query stays fetching
errorStateFetching(q) ==
  [q EXCEPT !.status = "error", !.retryer = SettledRetryer]

\* reducer, action 'error', and the Retryer rejected
errorState(q) ==
  [q EXCEPT !.isFetching = FALSE, !.status = "error",
            !.retryer = SettledRetryer]

\* variant of shouldRetry: retry without a limit (retry: true)
shouldRetryForever(r) == ~r.cancelRetry

\* Retryer: a failed call is retried while failureCount < retry, unless
\* cancelRetry() was called
shouldRetry(r) == r.failureCount < DefaultRetry /\ ~r.cancelRetry

\* variant of removeObserver: the fetch of the query left behind is cancelled
removeObserverCancel(q) ==
  [q EXCEPT !.isFetching = FALSE, !.retryer = SettledRetryer]

\* Query.removeObserver of the last observer: asyncGetCoins returns a plain
\* promise, so the fetch is not cancelled, only retryer.cancelRetry() is called
\* (the flag of a Retryer that has settled is never read again and is left out)
removeObserver(q) ==
  IF q.retryer.phase \in {"request", "sleep"}
    THEN [q EXCEPT !.retryer.cancelRetry = TRUE]
    ELSE q

\* ---- react-query: QueryObserver ----
NoResult == [defined |-> FALSE, data |-> EmptyData, status |-> "idle",
             isLoading |-> FALSE, isFetching |-> FALSE, isPreviousData |-> FALSE]

\* variant of createResult: the data of the query itself is always shown
createResultOwnData(q, prev) ==
  [defined |-> TRUE, data |-> q.data, status |-> q.status,
   isLoading |-> (q.status = "loading"), isFetching |-> q.isFetching,
   isPreviousData |-> FALSE]

\* QueryObserver.createResult for query state q and previousQueryResult prev
createResult(q, prev) ==
  LET keep == /\ keepPreviousData
              /\ q.dataUpdateCount = 0
              /\ prev.defined /\ prev.status = "success"
              /\ q.status # "error"
      status == IF keep THEN prev.status ELSE q.status
  IN [defined |-> TRUE,
      data |-> IF keep THEN prev.data ELSE q.data,
      status |-> status,
      isLoading |-> (status = "loading"),
      isFetching |-> q.isFetching,
      isPreviousData |-> keep]

\* the single observer of useQuery observes the query of the current key
\* variant of observed: the callbacks run for every query of the cache
observedAny(k) == mounted

observed(k) == mounted /\ k = activeKey

\* ---- the callbacks of useGetMarketCoinsQuery ----
\* variant of onSuccess: the data is written under the key with page 1
onSuccessFirstPage(st, data) ==
  LET dk == displayKey(currency, marketCap, 1)
  IN [x \in DOMAIN st \cup {dk} |-> IF x = dk THEN data ELSE st[x]]

\* variant of onSuccess: an entry already cached is not overwritten
onSuccessKeepFirst(st, data) ==
  LET dk == displayKey(currency, marketCap, currentPage)
  IN IF dk \in DOMAIN st THEN st ELSE [x \in DOMAIN st \cup {dk} |-> IF x = dk THEN data ELSE st[x]]

\* variant of onSuccess: the cache holds the new entry only
onSuccessReplaceAll(st, data) ==
  LET dk == displayKey(currency, marketCap, currentPage)
  IN [x \in {dk} |-> data]

\* onSuccess: queryClient.setQueryData([.., currency, marketCap, currentPage], data)
onSuccess(st, data) ==
  LET dk == displayKey(currency, marketCap, currentPage)
  IN [x \in DOMAIN st \cup {dk} |-> IF x = dk THEN data ELSE st[x]]

\* variant of onError: the cache is cleared when a fetch fails
onErrorClear(st) == << >>

\* onError: errorNotificationToast(handleQueryError(error)); the cache is not touched
onError(st) == st

\* variant of notifications: the toast is raised for every rejected fetch
notificationsAlways(isObserved) == 1

\* number of errorNotificationToast calls when a fetch is rejected: onError is
\* an option of the observer, called when the observer observes the query
notifications(isObserved) == IF isObserved THEN 1 ELSE 0

\* the step taken last: its kind, the useQuery key it is about, whether a run
\* joined a fetch in flight, whether the observer observed the key, the toasts
\* it raised and the calls of asyncGetCoins the fetch it settled had made
Step(op, k, joined, isObserved, notified, calls) ==
  [op |-> op, key |-> k, joined |-> joined, observed |-> isObserved,
   notified |-> notified, calls |-> calls]

\* ---- initial state: App constructed, CoinMarketPage not yet rendered ----
Init ==
  /\ mounted = FALSE
  /\ currency = "usd"
  /\ marketCap = "market_cap_desc"
  /\ currentPage = 1
  /\ pageSize = 10
  /\ queries = << >>
  /\ store = << >>
  /\ pending = [k \in FetchKeys |-> 0]
  /\ prevQueryResult = NoResult
  /\ result = NoResult
  /\ runs = 0
  /\ fails = 0
  /\ gcs = 0
  /\ last = Step("init", activeKey, FALSE, FALSE, 0, 0)

\* ---- a render of CoinMarketPage with inputs (c, o, p, s) and its effects ----
\* useGetMarketCoinsQuery: getQueryData, useQuery (build the query, move the
\* observer to it, fetch when the query is stale and not already fetching).
run(c, o, p, s, op) ==
  LET k == fetchKey(c, o, p, s)
      built == build(queries, k, initialData(c, o, p))
      left == IF mounted /\ activeKey # k
                THEN [built EXCEPT ![activeKey] = removeObserver(@)]
                ELSE built
      joins == alreadyFetching(left[k])
      fetches == ~joins /\ isStale(left[k])
      after == IF joins
                 THEN [left EXCEPT ![k].retryer.cancelRetry = FALSE]
                 ELSE IF fetches THEN [left EXCEPT ![k] = startFetch(@)] ELSE left
      prev == IF mounted THEN result ELSE NoResult
  IN /\ currency' = c
     /\ marketCap' = o
     /\ currentPage' = p
     /\ pageSize' = s
     /\ mounted' = TRUE
     /\ queries' = after
     /\ pending' = IF fetches THEN [pending EXCEPT ![k] = @ + 1] ELSE pending
     /\ prevQueryResult' = prev
     /\ result' = createResult(after[k], prev)
     /\ last' = Step(op, k, joins, TRUE, 0, 0)
     /\ UNCHANGED store

\* the inputs change to key k only while fewer than MaxInFlight fetches are
\* unsettled, or when k is itself among them
mayRun(k) ==
  /\ mounted /\ runs < MaxRuns
  /\ k # activeKey
  /\ \/ Cardinality({ x \in DOMAIN queries : queries[x].isFetching }) < MaxInFlight
     \/ (k \in DOMAIN queries /\ queries[k].isFetching)

\* first render: defaultValues of useForm, useState(1), useState(10)
Mount ==
  /\ ~mounted
  /\ run(currency, marketCap, currentPage, pageSize, "mount")
  /\ UNCHANGED << runs, fails, gcs >>

\* the currency Select changes watch("currency")
SelectCurrency(c) ==
  /\ mayRun(fetchKey(c, marketCap, currentPage, pageSize))
  /\ run(c, marketCap, currentPage, pageSize, "run")
  /\ runs' = runs + 1
  /\ UNCHANGED << fails, gcs >>

\* the market cap Select changes watch("marketCap")
SelectMarketCap(o) ==
  /\ mayRun(fetchKey(currency, o, currentPage, pageSize))
  /\ run(currency, o, currentPage, pageSize, "run")
  /\ runs' = runs + 1
  /\ UNCHANGED << fails, gcs >>

\* handlePageChange(page, pageSize): setCurrentPage(page) and, pageSize being
\* a non-zero option of the pagination, setPageSize(pageSize)
handlePageChange(p, s) ==
  /\ mayRun(fetchKey(currency, marketCap, p, s))
  /\ run(currency, marketCap, p, s, "run")
  /\ runs' = runs + 1
  /\ UNCHANGED << fails, gcs >>

\* ---- completion of the request of query k ----
inputs == << mounted, currency, marketCap, currentPage, pageSize, runs >>
budgets == << fails, gcs >>

\* the promise of asyncGetCoins resolves with res.data
FetchSuccess(k, ver) ==
  /\ k \in DOMAIN queries
  /\ queries[k].retryer.phase = "request"
  /\ pending[k] > 0
  /\ LET q == successState(queries[k], queryFn(k, ver))
         r == createResult(q, prevQueryResult)
     IN /\ queries' = [queries EXCEPT ![k] = q]
        /\ pending' = [pending EXCEPT ![k] = @ - 1]
        /\ result' = IF observed(k) THEN r ELSE result
        /\ store' = IF observed(k) THEN onSuccess(store, r.data) ELSE store
        /\ last' = Step("success", k, FALSE, observed(k), 0, queries[k].retryer.calls)
  /\ UNCHANGED << inputs, budgets, prevQueryResult >>

\* the Retryer rejects: the query goes to status error and the observer,
\* when it still observes the query, calls onError
reject(k, op) ==
  LET q == errorState(queries[k])
  IN /\ queries' = [queries EXCEPT ![k] = q]
     /\ result' = IF observed(k) THEN createResult(q, prevQueryResult) ELSE result
     /\ store' = IF observed(k) THEN onError(store) ELSE store
     /\ last' = Step(op, k, FALSE, observed(k), notifications(observed(k)),
                      queries[k].retryer.calls)

\* the promise of asyncGetCoins rejects
FetchFail(k) ==
  /\ k \in DOMAIN queries
  /\ queries[k].retryer.phase = "request"
  /\ pending[k] > 0
  /\ fails < MaxFails
  /\ fails' = fails + 1
  /\ pending' = [pending EXCEPT ![k] = @ - 1]
  /\ IF shouldRetry(queries[k].retryer)
       THEN /\ queries' = [queries EXCEPT ![k].retryer.phase = "sleep",
                                          ![k].retryer.failureCount = @ + 1]
            /\ last' = Step("failed", k, FALSE, observed(k), 0, 0)
            /\ UNCHANGED << result, store >>
       ELSE reject(k, "error")
  /\ UNCHANGED << inputs, gcs, prevQueryResult >>

\* the retry delay of the Retryer of query k has passed
RetryWake(k) ==
  /\ k \in DOMAIN queries
  /\ queries[k].retryer.phase = "sleep"
  /\ IF queries[k].retryer.cancelRetry
       THEN reject(k, "error") /\ UNCHANGED pending
       ELSE /\ queries' = [queries EXCEPT ![k].retryer.phase = "request",
                                          ![k].retryer.calls = @ + 1]
            /\ pending' = [pending EXCEPT ![k] = @ + 1]
            /\ last' = Step("retry", k, FALSE, observed(k), 0, 0)
            /\ UNCHANGED << result, store >>
  /\ UNCHANGED << inputs, budgets, prevQueryResult >>

\* ---- garbage collection (cacheTime) of queries without observers ----
\* Query.optionalRemove of a useQuery key
GcQuery(k) ==
  /\ k \in DOMAIN queries
  /\ ~observed(k)
  /\ ~queries[k].isFetching
  /\ gcs < MaxGc
  /\ gcs' = gcs + 1
  /\ queries' = [x \in DOMAIN queries \ {k} |-> queries[x]]
  /\ last' = Step("gc", k, FALSE, FALSE, 0, 0)
  /\ UNCHANGED << inputs, fails, store, pending, prevQueryResult, result >>

\* Query.optionalRemove of a key written by setQueryData: it never has observers
GcStore(c, o, p) ==
  /\ displayKey(c, o, p) \in DOMAIN store
  /\ gcs < MaxGc
  /\ gcs' = gcs + 1
  /\ store' = [x \in DOMAIN store \ {displayKey(c, o, p)} |-> store[x]]
  /\ last' = Step("gcstore", fetchKey(c, o, p, pageSize), FALSE, FALSE, 0, 0)
  /\ UNCHANGED << inputs, fails, queries, pending, prevQueryResult, result >>

Next ==
  \/ Mount
  \/ \E c \in Currencies : SelectCurrency(c)
  \/ \E o \in SortOrders : SelectMarketCap(o)
  \/ \E p \in Pages, s \in PageSizeOptions : handlePageChange(p, s)
  \/ \E k \in FetchKeys, ver \in Versions : FetchSuccess(k, ver)
  \/ \E k \in FetchKeys : FetchFail(k)
  \/ \E k \in FetchKeys : RetryWake(k)
  \/ \E k \in FetchKeys : GcQuery(k)
  \/ \E c \in Currencies, o \in SortOrders, p \in Pages : GcStore(c, o, p)

Spec == Init /\ [][Next]_vars

TypeOK ==
  /\ mounted \in BOOLEAN
  /\ DOMAIN queries \subseteq FetchKeys
  /\ DOMAIN store \subseteq DisplayKeys
  /\ \A k \in FetchKeys : pending[k] \in 0..1

\* ---- steps, as seen from the state before and the state after ----
\* the inputs changed: a run with a new key
RunStep == mounted /\ runs' = runs + 1

\* the query of key k has a fetch that has not settled
inFlight(k) == k \in DOMAIN queries /\ queries[k].isFetching

\* the useQuery key after the step
NewKey == fetchKey(currency', marketCap', currentPage', pageSize')

\* a request of asyncGetCoins failed, or a fetch was rejected after its delay
FailureStep ==
  \/ fails' = fails + 1
  \/ \E k \in DOMAIN queries : /\ queries[k].retryer.phase = "sleep"
                                /\ queries'[k].retryer.phase = "resolved"

\* ---- C1 ----
\* C1: no key ever has more than one request of asyncGetCoins outstanding,
\* and a run whose key has a fetch in flight makes no call of asyncGetCoins:
\* the requests outstanding and the calls made by that fetch stay as they were.
C1_Deduplication ==
  /\ [](\A k \in FetchKeys : pending[k] <= 1)
  /\ [][(RunStep /\ inFlight(NewKey))
          => /\ pending' = pending
             /\ queries'[NewKey].isFetching
             /\ queries'[NewKey].retryer.calls = queries[NewKey].retryer.calls]_vars

\* run(A), run(B), run(A) with the fetch of A still in flight: the second
\* run of A joined it
C1_Witness ==
  /\ last.op = "run" /\ last.joined /\ runs = 2
  /\ pending[activeKey] = 1
  /\ \E k \in DOMAIN queries : k # activeKey /\ queries[k].isFetching

\* ---- C2 ----
\* C2 as stated: after the success of any fetch, the store holds the fetched
\* sequence under the display key of the fetch and the observable state is
\* {data: result, isLoading: false, isFetching: false}.
C2_AsStated ==
  last.op = "success" =>
    /\ displayKeyOf(last.key) \in DOMAIN store
    /\ store[displayKeyOf(last.key)] = queries[last.key].data
    /\ result.data = queries[last.key].data
    /\ ~result.isLoading /\ ~result.isFetching

\* C2 amended: after the success of a fetch whose key is the active key when
\* it completes, the store holds the fetched sequence under the display key
\* and the observable state is {data: result, isLoading: false, isFetching:
\* false}.
C2_SuccessOfActiveKey ==
  (last.op = "success" /\ last.observed) =>
    /\ displayKeyOf(last.key) \in DOMAIN store
    /\ store[displayKeyOf(last.key)] = queries[last.key].data
    /\ result.data = queries[last.key].data
    /\ ~result.isLoading /\ ~result.isFetching

\* a fetch of page 2 has succeeded as the active key while page 1 is cached
C2_Witness ==
  /\ last.op = "success" /\ last.observed /\ currentPage = 2
  /\ displayKey(currency, marketCap, 1) \in DOMAIN store
  /\ store[displayKeyOf(activeKey)] = result.data

\* ---- C3 ----
\* C3: a step in which a request fails or a fetch is rejected leaves the
\* store as it was for every display key, and leaves the queries and the
\* outstanding requests of all other keys as they were.
C3_FailureLeavesStore ==
  [][FailureStep
       => /\ store' = store
          /\ \A k \in FetchKeys \ {last'.key} :
               /\ pending'[k] = pending[k]
               /\ (k \in DOMAIN queries) = (k \in DOMAIN queries')
               /\ k \in DOMAIN queries => queries'[k] = queries[k]]_vars

\* a fetch was rejected while the store held data and another fetch was in flight
C3_Witness ==
  /\ last.op = "error"
  /\ store # << >>
  /\ \E k \in DOMAIN queries : k # last.key /\ pending[k] = 1

\* ---- C4 ----
\* C4 as stated: a fetch never makes a second call of asyncGetCoins.
C4_AsStated == \A k \in DOMAIN queries : queries[k].retryer.calls <= 1

\* C4 amended: a run that is not deduplicated causes at least one and at most
\* 1 + DefaultRetry calls of asyncGetCoins; a fetch that succeeds makes no
\* further call; a fetch that is rejected while its key is active has made
\* all 1 + DefaultRetry calls; no call is outstanding for a settled fetch.
C4_BoundedRetry ==
  /\ \A k \in DOMAIN queries :
       /\ queries[k].retryer.calls <= 1 + DefaultRetry
       /\ queries[k].isFetching => queries[k].retryer.calls >= 1
       /\ ~queries[k].isFetching => pending[k] = 0
  /\ last.op \in {"success", "error"} => last.calls \in 1..(1 + DefaultRetry)
  /\ (last.op = "error" /\ last.observed) => last.calls = 1 + DefaultRetry

\* the fetch of the active key was rejected after its last retry
C4_Witness == last.op = "error" /\ last.observed /\ last.calls = 1 + DefaultRetry

\* ---- C5 ----
\* C5 as stated: every rejected fetch raises exactly one toast.
C5_AsStated == last.op = "error" => last.notified = 1

\* C5 amended: a fetch rejected while its key is the active key raises
\* exactly one toast; a fetch rejected after the active key has changed
\* raises none; no other step raises a toast.
C5_ToastOfActiveKey ==
  /\ (last.op = "error" /\ last.observed) => last.notified = 1
  /\ (last.op = "error" /\ ~last.observed) => last.notified = 0
  /\ last.op # "error" => last.notified = 0

\* a fetch was rejected after the inputs had moved to another key
C5_Witness == last.op = "error" /\ ~last.observed /\ last.key # activeKey /\ last.notified = 0

\* ---- C6 ----
\* C6: when the fetch of the active key is rejected, the displayed data is
\* the sequence displayed immediately before, and isLoading and isFetching
\* are false afterwards.
C6_DataKeptOnFailure ==
  [][(FailureStep /\ last'.op = "error" /\ last'.observed)
       => /\ result'.data = result.data
          /\ ~result'.isLoading /\ ~result'.isFetching]_vars

\* ---- C7 ----
\* C7 as stated: right after the first run, with an empty store, the
\* observable state is {data: [], isLoading: true, isFetching: true}.
C7_AsStated ==
  last.op = "mount" =>
    /\ result.data = EmptyData /\ result.isLoading /\ result.isFetching

\* C7 amended: right after the first run, with an empty store, the observable
\* state is {data: [], isLoading: false, isFetching: true}; isLoading is false
\* at the start of every run and in every other state, whether or not a
\* cached value exists, and isFetching is true at the start of every run.
C7_NeverLoading ==
  /\ last.op = "mount" =>
       /\ store = << >>
       /\ result.data = EmptyData /\ ~result.isLoading /\ result.isFetching
  /\ last.op = "run" => ~result.isLoading /\ result.isFetching
  /\ ~result.isLoading
  /\ \A k \in DOMAIN queries : queries[k].status # "loading"

\* the state right after the first run
C7_Witness ==
  /\ last.op = "mount" /\ mounted /\ store = << >>
  /\ result.defined /\ result.data = EmptyData
  /\ result.isFetching /\ ~result.isLoading

\* ---- C8 ----
\* only pageSize changes
SizeOnlyStep ==
  /\ RunStep
  /\ currency' = currency /\ marketCap' = marketCap
  /\ currentPage' = currentPage /\ pageSize' # pageSize

\* key k has neither received data nor failed: it has no query, or a query
\* that still holds its initial data and is not in status error
fresh(k) ==
  k \in DOMAIN queries => (queries[k].dataUpdateCount = 0 /\ queries[k].status # "error")

\* C8 as stated: changing only pageSize keeps the display key and changes the
\* fetch key, a new request of asyncGetCoins is made, and right after the
\* change the displayed data is the value cached under the display key.
C8_AsStated ==
  [][SizeOnlyStep
       => /\ displayKeyOf(NewKey) = displayKeyOf(activeKey)
          /\ NewKey # activeKey
          /\ pending'[NewKey] = pending[NewKey] + 1
          /\ result'.data = initialData(currency, marketCap, currentPage)]_vars

\* C8 amended: changing only pageSize keeps the display key and changes the
\* fetch key; a new request of asyncGetCoins is made unless a fetch of the new
\* fetch key is in flight; right after the change the displayed data is the
\* data displayed before it when the new fetch key has neither received data
\* nor failed and the result before was a success (so it is the value cached
\* under the display key exactly when the data displayed before was), and it
\* is the data last fetched for the new fetch key when that key has received
\* data before.
C8_SizeChange ==
  [][SizeOnlyStep
       => /\ displayKeyOf(NewKey) = displayKeyOf(activeKey)
          /\ NewKey # activeKey
          /\ ~inFlight(NewKey) => /\ pending'[NewKey] = pending[NewKey] + 1
                                  /\ queries'[NewKey].retryer.calls = 1
          /\ inFlight(NewKey) => pending' = pending
          /\ (fresh(NewKey) /\ result.status = "success")
               => result'.data = result.data
          /\ (NewKey \in DOMAIN queries /\ queries[NewKey].dataUpdateCount > 0)
               => result'.data = queries[NewKey].data]_vars

\* right after a change of pageSize alone the rows of the other page size,
\* which are the value cached under the display key, are displayed while the
\* new request is outstanding
C8_Witness ==
  /\ last.op = "run" /\ ~last.joined /\ pending[activeKey] = 1
  /\ result.isPreviousData
  /\ displayKeyOf(activeKey) \in DOMAIN store
  /\ result.data = store[displayKeyOf(activeKey)]
  /\ result.data # EmptyData
  /\ result.data[1].page = currentPage /\ result.data[1].per_page # pageSize

\* ---- C9 ----
\* C9 as stated: right after a run whose display key has an entry in the
\* store, the displayed data is that entry.
C9_AsStated ==
  (last.op = "run" /\ displayKeyOf(activeKey) \in DOMAIN store)
    => result.data = store[displayKeyOf(activeKey)]

\* C9 amended: for a run whose display key has an entry in the store: when
\* the fetch key has no query yet, the query is created with that entry as
\* its data, and the entry is displayed at run start when the result before
\* was not a success, while the data displayed before stays displayed when
\* the result before was a success; when the fetch key has a query that has
\* received data, the data of that query is displayed, not the entry.
C9_InitialDataFromStore ==
  [][(RunStep /\ displayKeyOf(NewKey) \in DOMAIN store)
       => /\ NewKey \notin DOMAIN queries
               => /\ queries'[NewKey].data = store[displayKeyOf(NewKey)]
                  /\ result.status # "success"
                       => result'.data = store[displayKeyOf(NewKey)]
                  /\ result.status = "success" => result'.data = result.data
          /\ (NewKey \in DOMAIN queries /\ queries[NewKey].dataUpdateCount > 0)
               => result'.data = queries[NewKey].data]_vars

\* after a rejected fetch, a run to a key without a query displays the entry
\* the store holds for its display key
C9_Witness ==
  /\ last.op = "run" /\ ~last.joined
  /\ prevQueryResult.status = "error"
  /\ queries[activeKey].dataUpdateCount = 0
  /\ displayKeyOf(activeKey) \in DOMAIN store
  /\ result.data = store[displayKeyOf(activeKey)]
  /\ ~result.isPreviousData

\* ---- C10 ----
\* from page 1 to page 2 with the same currency and order, while the store
\* has an entry for page 1 and none for page 2
PageTwoStep ==
  /\ RunStep
  /\ currency' = currency /\ marketCap' = marketCap
  /\ currentPage = 1 /\ currentPage' = 2
  /\ displayKey(currency, marketCap, 1) \in DOMAIN store
  /\ displayKey(currency, marketCap, 2) \notin DOMAIN store

\* C10 as stated: such a run starts with data = [] and leaves the entry of
\* page 1 in the store.
C10_AsStated ==
  [][PageTwoStep
       => /\ result'.data = EmptyData
          /\ store' = store]_vars

\* C10 amended: when the result of the page-1 query is displayed and the fetch
\* key of page 2 has neither received data nor failed, such a run starts with
\* the page-1 result still displayed (previous data is kept), not with [],
\* and it leaves the entry of page 1 in the store.
C10_KeepsPageOne ==
  [][(/\ PageTwoStep
      /\ result.status = "success"
      /\ result.data = store[displayKey(currency, marketCap, 1)]
      /\ fresh(NewKey))
       => /\ result'.data = store[displayKey(currency, marketCap, 1)]
          /\ result'.isPreviousData /\ result'.isFetching
          /\ store' = store]_vars

\* right after the run for page 2 the page-1 entry is displayed and cached
C10_Witness ==
  /\ last.op = "run" /\ currentPage = 2
  /\ displayKey(currency, marketCap, 1) \in DOMAIN store
  /\ displayKey(currency, marketCap, 2) \notin DOMAIN store
  /\ result.data = store[displayKey(currency, marketCap, 1)]
  /\ result.data # EmptyData
  /\ result.isPreviousData /\ result.isFetching

successOf(k) ==
  /\ k \in DOMAIN queries /\ pending[k] = 1 /\ pending'[k] = 0
  /\ last'.op = "success" /\ last'.key = k

\* C12 as stated: when a fetch succeeds and the store already holds the result
\* of a fetch of the same display key, the entry afterwards holds the result
\* of the fetch that completed last.
C12_AsStated ==
  [][\A k \in FetchKeys :
       (successOf(k) /\ displayKeyOf(k) \in DOMAIN store)
         => store'[displayKeyOf(k)] = queries'[k].data]_vars

\* C12: when a fetch succeeds and the store already holds the result of a
\* fetch of the same display key, the entry is replaced by the result of the
\* completing fetch when its key is the active one, and the store is left as
\* it is when its key is no longer active: the entry holds the result of the
\* fetch that completed last while active.
C12_LastActiveCompletionWins ==
  [][\A k \in FetchKeys :
       (successOf(k) /\ displayKeyOf(k) \in DOMAIN store)
         => IF k = activeKey
              THEN /\ store'[displayKeyOf(k)] = queries'[k].data
                   /\ DOMAIN store' = DOMAIN store
                   /\ \A K \in DOMAIN store \ {displayKeyOf(k)} : store'[K] = store[K]
              ELSE store' = store]_vars

\* page size 10, then 20 (its fetch succeeds and is cached), then 10 again:
\* the fetch of page size 10 completes last and replaces the cached rows
C12_Witness ==
  /\ last.op = "success" /\ last.observed /\ runs = 2 /\ fails = 0 /\ gcs = 0
  /\ activeKey = fetchKey("usd", "market_cap_desc", 1, 10)
  /\ fetchKey("usd", "market_cap_desc", 1, 20) \in DOMAIN queries
  /\ queries[fetchKey("usd", "market_cap_desc", 1, 20)].dataUpdateCount = 1
  /\ store[displayKeyOf(activeKey)] = queries[activeKey].data
  /\ store[displayKeyOf(activeKey)][1].per_page = 10

\* ---- C13 ----
\* C13 as stated: an entry of the store, once present, is present in every
\* later state.
C13_AsStated ==
  [][\A K \in DOMAIN store : K \in DOMAIN store']_vars

\* C13: an entry of the store stays present until the cache garbage-collects
\* it (cacheTime after it was first written: no observer holds it); while it is
\* present its value changes only through the success of a fetch with the same
\* display key that is active when it completes, and an entry appears only
\* through such a success.
C13_PresentUntilCollected ==
  [][/\ \A K \in DOMAIN store :
          /\ K \notin DOMAIN store'
               => (gcs' = gcs + 1 /\ last'.op = "gcstore" /\ displayKeyOf(last'.key) = K)
          /\ (K \in DOMAIN store' /\ store'[K] # store[K])
               => \E k \in FetchKeys :
                    /\ successOf(k) /\ k = activeKey /\ displayKeyOf(k) = K
                    /\ store'[K] = queries'[k].data
     /\ \A K \in DOMAIN store' \ DOMAIN store :
          \E k \in FetchKeys :
            /\ successOf(k) /\ k = activeKey /\ displayKeyOf(k) = K
            /\ store'[K] = queries'[k].data]_vars

\* an entry written by a success was collected while the rows it held are
\* still displayed
C13_Witness ==
  /\ last.op = "gcstore" /\ gcs = 1
  /\ displayKeyOf(last.key) \notin DOMAIN store
  /\ displayKeyOf(last.key) = displayKeyOf(activeKey)
  /\ queries[activeKey].dataUpdateCount = 1
  /\ result.data = queries[activeKey].data /\ ~result.isFetching

\* ---- C14 ----
\* hashQueryKey of react-query, by which the cache identifies a query:
\* JSON.stringify of the key array, here the sequence of its JSON tokens
\* (the first three elements are strings, page and page size are numbers)
hashQueryKey(key) ==
  [i \in 1..Len(key) |-> IF i <= 3 THEN "\"" \o key[i] \o "\"" ELSE ToString(key[i])]

\* two renders of useGetMarketCoinsQuery: one with the inputs of the state,
\* one with the inputs held in last
KeyInit ==
  /\ mounted = FALSE
  /\ currency \in Currencies
  /\ marketCap \in SortOrders
  /\ currentPage \in Pages
  /\ pageSize \in PageSizeOptions
  /\ queries = << >>
  /\ store = << >>
  /\ pending = [k \in FetchKeys |-> 0]
  /\ prevQueryResult = NoResult
  /\ result = NoResult
  /\ runs = 0
  /\ fails = 0
  /\ gcs = 0
  /\ last \in [op : {"inputs"}, currency : Currencies, marketCap : SortOrders,
               currentPage : Pages, pageSize : PageSizeOptions]

\* both renders compute the key of getQueryData / setQueryData and the key of
\* useQuery, and the cache hashes them
KeyApply ==
  /\ last.op = "inputs"
  /\ last' = [op |-> "keys",
              currency |-> last.currency, marketCap |-> last.marketCap,
              currentPage |-> last.currentPage, pageSize |-> last.pageSize,
              display |-> << hashQueryKey(displayKey(currency, marketCap, currentPage)),
                             hashQueryKey(displayKey(last.currency, last.marketCap,
                                                     last.currentPage)) >>,
              fetch |-> << hashQueryKey(fetchKey(currency, marketCap, currentPage, pageSize)),
                           hashQueryKey(fetchKey(last.currency, last.marketCap,
                                                 last.currentPage, last.pageSize)) >>]
  /\ UNCHANGED << mounted, currency, marketCap, currentPage, pageSize, queries,
                  store, pending, prevQueryResult, result, runs, fails, gcs >>

KeyNext == KeyApply

KeySpec == KeyInit /\ [][KeyNext]_vars

\* C14: the display keys of two renders are the same query exactly when the
\* renders agree on (currency, sortOrder, page), whatever their page sizes;
\* their fetch keys are the same query exactly when they also agree on the
\* page size; a display key is never a fetch key.
C14_KeyIdentity ==
  last.op = "keys" =>
    LET sameTriple == /\ currency = last.currency /\ marketCap = last.marketCap
                      /\ currentPage = last.currentPage
    IN /\ (last.display[1] = last.display[2]) <=> sameTriple
       /\ (last.fetch[1] = last.fetch[2]) <=> (sameTriple /\ pageSize = last.pageSize)
       /\ \A i, j \in 1..2 : last.display[i] # last.fetch[j]

\* two renders that differ in the page size only: one display key, two fetch keys
C14_Witness ==
  /\ last.op = "keys"
  /\ currency = last.currency /\ marketCap = last.marketCap
  /\ currentPage = last.currentPage /\ pageSize # last.pageSize
  /\ last.display[1] = last.display[2]
  /\ last.fetch[1] # last.fetch[2]

\* ---- C15 ----
\* the step in which the fetch of query k settles (resolves or is rejected)
settleOf(k) ==
  /\ inFlight(k)
  /\ k \in DOMAIN queries' /\ ~queries'[k].isFetching

\* C15: a run for another key leaves the requests of every other key
\* outstanding and their fetches unsettled; and the step in which the fetch
\* of a key that is not the active one settles leaves the observable result
\* (data, isLoading, isFetching) and the query of the active key unchanged.
C15_NoCancelStaleDiscard ==
  [][/\ RunStep =>
          \A k \in FetchKeys \ {NewKey} :
            /\ pending'[k] = pending[k]
            /\ inFlight(k) => (k \in DOMAIN queries' /\ queries'[k].isFetching)
     /\ \A k \in FetchKeys :
          (settleOf(k) /\ k # activeKey)
            => /\ result' = result
               /\ queries'[activeKey] = queries[activeKey]
               /\ pending'[activeKey] = pending[activeKey]]_vars

\* the fetch of a key left behind resolved while the fetch of the active key
\* is still outstanding: nothing cached, the previous rows still displayed
C15_Witness ==
  /\ last.op = "success" /\ ~last.observed /\ last.key # activeKey
  /\ queries[last.key].dataUpdateCount = 1
  /\ displayKeyOf(last.key) \notin DOMAIN store
  /\ result.isFetching /\ pending[activeKey] = 1
  /\ result.data # queries[last.key].data

\* ---- C16 ----
\* C16: a run with a fetch key that has no fetch in flight (a key never
\* fetched, or one whose last fetch ended in success or in error, whatever
\* data it holds) moves the key to fetching and issues one new call of the
\* remote; isFetching is true after it.
C16_RefetchOnRevisit ==
  [][(RunStep /\ ~inFlight(NewKey))
       => /\ queries'[NewKey].isFetching
          /\ queries'[NewKey].retryer = NewRetryer
          /\ pending'[NewKey] = pending[NewKey] + 1
          /\ result'.isFetching
          /\ ~last'.joined]_vars

\* a key revisited after its fetch succeeded is fetched again, its rows displayed
C16_Witness ==
  /\ last.op = "run" /\ ~last.joined
  /\ queries[activeKey].dataUpdateCount = 1 /\ queries[activeKey].status = "success"
  /\ queries[activeKey].isFetching /\ pending[activeKey] = 1
  /\ result.data = queries[activeKey].data /\ result.data # EmptyData

\* ---- C17 ----
\* a request outstanding resolves or rejects, a retry delay running passes
Settling ==
  \E k \in FetchKeys :
    \/ \E ver \in Versions : FetchSuccess(k, ver)
    \/ FetchFail(k)
    \/ RetryWake(k)

\* the program with a remote that answers every call and timers that fire;
\* the user changes the inputs finitely often (MaxRuns)
LiveSpec == Init /\ [][Next]_vars /\ WF_vars(Mount) /\ WF_vars(Settling)

\* C17: when every call of the remote eventually succeeds or fails and the
\* inputs stop changing, the page eventually shows isFetching = false and
\* isLoading = false for good, and from then on no fetch key is fetching and
\* no request is outstanding.
C17_EventuallyIdle ==
  <>[](/\ mounted /\ ~result.isFetching /\ ~result.isLoading
       /\ \A k \in DOMAIN queries : ~queries[k].isFetching
       /\ \A k \in FetchKeys : pending[k] = 0)

\* every fetch has settled after the inputs changed while fetches were
\* outstanding: one was rejected, the active one received data
C17_Witness ==
  /\ mounted /\ runs > 0 /\ fails > 0
  /\ ~result.isFetching /\ ~result.isLoading
  /\ \A k \in DOMAIN queries : ~queries[k].isFetching
  /\ \A k \in FetchKeys : pending[k] = 0
  /\ \E k \in DOMAIN queries : queries[k].status = "error"
  /\ queries[activeKey].dataUpdateCount = 1

\* ---- C18 ----
\* C18: every entry of the store holds the rows of one call of the remote,
\* and the (currency, sortOrder, page) that call was made with are those of
\* the display key of the entry.
C18_StoreProvenance ==
  \A K \in DOMAIN store :
    /\ \E s \in PageSizeOptions, ver \in Versions :
         store[K] = asyncGetCoins([vs_currency |-> K[2], order |-> K[3]], K[4], s, ver)
    /\ \A i \in 1..Len(store[K]) :
         displayKey(store[K][i].vs_currency, store[K][i].order, store[K][i].page) = K

\* two entries are cached and a fetch of a third key resolved after the
\* inputs had moved on: its rows are cached under no key
C18_Witness ==
  /\ Cardinality(DOMAIN store) = 2
  /\ \E k \in DOMAIN queries :
       /\ k # activeKey /\ queries[k].dataUpdateCount = 1
       /\ displayKeyOf(k) \notin DOMAIN store
       /\ \A K \in DOMAIN store : store[K] # queries[k].data
  /\ displayKeyOf(activeKey) \in DOMAIN store
  /\ gcs = 0

\* ---- C19 ----
\* C19 as stated: isFetching is true exactly when a call of the remote for
\* the active fetch key is outstanding.
C19_AsStated ==
  mounted => (result.isFetching <=> pending[activeKey] > 0)

\* C19: isFetching is true exactly when the fetch of the active fetch key has
\* not settled, that is when a call of the remote for it is outstanding or
\* the delay before a retry of it is running; the fetches of the other keys
\* have no part in it.
C19_FetchingOfActiveKey ==
  mounted =>
    /\ result.isFetching <=> queries[activeKey].isFetching
    /\ result.isFetching <=> queries[activeKey].retryer.phase \in {"request", "sleep"}
    /\ (queries[activeKey].retryer.phase = "request") <=> (pending[activeKey] = 1)
    /\ (queries[activeKey].retryer.phase = "sleep") => (pending[activeKey] = 0)
    /\ pending[activeKey] \in {0, 1}

\* a request of the active key failed and its retry delay is running: the
\* only call outstanding is one of a key left behind, isFetching is true
C19_Witness ==
  /\ mounted /\ result.isFetching /\ pending[activeKey] = 0
  /\ queries[activeKey].retryer.phase = "sleep"
  /\ last.op = "failed" /\ last.observed
  /\ \E k \in DOMAIN queries : k # activeKey /\ pending[k] = 1

\* ---- C20 ----
\* error.message of the failures: messages axios gives to a failed request
ErrorMessages ==
  {"Network Error", "Request failed with status code 429",
   "Request failed with status code 500", "timeout of 0ms exceeded"}

\* error.response.data: the body of an error answer, a JSON object with or
\* without a message (message is << >> when the object has none) or an empty
\* body, which axios delivers as the empty string.  The remote is taken to
\* answer with one of these; of a body that is the JSON value null,
\* response?.data.message has no value to return (reading .message throws).
ResponseBodies ==
  [type : {"object"},
   message : {<< >>, << "" >>, << "Not Found" >>, << "Too Many Requests" >>,
              << "Internal Server Error" >>}]
    \cup {[type |-> "text", message |-> << >>]}

NoResponse == [present |-> FALSE, data |-> [type |-> "text", message |-> << >>]]

\* the values asyncGetCoins rejects with: an AxiosError with a response (the
\* server answered with an error status), with a request only (no answer),
\* or with neither (the request could not be set up); and an Error that is
\* no AxiosError
Failures ==
  [isAxiosError : {TRUE},
   response : {NoResponse} \cup [present : {TRUE}, data : ResponseBodies],
   request : BOOLEAN,
   message : ErrorMessages]
    \cup [isAxiosError : {FALSE}, response : {NoResponse}, request : {FALSE},
          message : ErrorMessages]

\* variant of handleQueryError: error.request is tested before error.response
handleQueryErrorRequestFirst(error) ==
  IF error.isAxiosError /\ error.request
    THEN "No response from server"
    ELSE IF error.isAxiosError /\ error.response.present
      THEN LET message == error.response.data.message
           IN IF message # << >> /\ message[1] # "" THEN message[1] ELSE "Unknown error"
      ELSE error.message

\* handleQueryError(error): response?.data.message || "Unknown error" for an
\* AxiosError with a response, "No response from server" for one with a
\* request, (error as Error).message otherwise
handleQueryError(error) ==
  IF error.isAxiosError /\ error.response.present
    THEN LET message == error.response.data.message
         IN IF message # << >> /\ message[1] # "" THEN message[1] ELSE "Unknown error"
    ELSE IF error.isAxiosError /\ error.request
      THEN "No response from server"
      ELSE error.message

\* errorNotificationToast(message): toast.error(message, {...})
errorNotificationToast(message) ==
  [type |-> "error", message |-> message, position |-> "bottom-right", autoClose |-> 5000]

\* a fetch of the observed query is about to be rejected with a failure
ErrInit ==
  /\ mounted = FALSE
  /\ currency = "usd"
  /\ marketCap = "market_cap_desc"
  /\ currentPage = 1
  /\ pageSize = 10
  /\ queries = << >>
  /\ store = << >>
  /\ pending = [k \in FetchKeys |-> 0]
  /\ prevQueryResult = NoResult
  /\ result = NoResult
  /\ runs = 0
  /\ fails = 0
  /\ gcs = 0
  /\ last \in [op : {"rejecting"}, error : Failures]

\* onError: errorNotificationToast(handleQueryError(error))
ErrOnError ==
  /\ last.op = "rejecting"
  /\ last' = [op |-> "onError", error |-> last.error,
              toast |-> errorNotificationToast(handleQueryError(last.error))]
  /\ UNCHANGED << mounted, currency, marketCap, currentPage, pageSize, queries,
                  store, pending, prevQueryResult, result, runs, fails, gcs >>

ErrNext == ErrOnError

ErrSpec == ErrInit /\ [][ErrNext]_vars

====
